---- MODULE Spec2Model ----
(***************************************************************************)
(* A model of the Sora link dispatcher (src/app.py, src/database.py):      *)
(*   - CloudflareState, the process-wide challenge state and its lock;     *)
(*   - the round-robin selectors get_next_account / get_next_proxy and the *)
(*     caches they read;                                                   *)
(*   - get_sora_link / process_sora_request, the retry loop.               *)
(* Python values are tagged pairs <<tag, n>>; mutable dicts live in a heap *)
(* of objects and are held by reference, as in Python.                     *)
(***************************************************************************)
EXTENDS Integers, Sequences, FiniteSets, TLC

\* ------------------------------------------------------------------ bounds
MaxObj == 5          \* heap objects
MaxVer == 1          \* distinct tokens offered to update
MaxTicks == 1        \* clock advances
NAcc == 2            \* rows of table sora_accounts
NPrx == 2            \* rows of table proxies
MaxRetries == 1      \* largest max_retries setting

\* ------------------------------------------------------- program constants
DefaultTtl == 600    \* update(..., ttl=600)
AccountsTtl == 10    \* _accounts_cache['expires'] = now + 10
SettingsTtl == 30    \* _settings_cache['expires'] = now + 30

\* ------------------------------------------------------------ Python values
PyNone == <<"none", 0>>
Str(n) == <<"str", n>>          \* Str(0) is the empty string
Absent == <<"absent", 0>>       \* a key a dict does not hold

\* bool(v): None and "" are falsy
Truthy(v) == v[1] = "str" /\ v[2] # 0

ObjIds == 1..MaxObj
Keys == {"cf_clearance", "sid"}
EmptyItems == [k \in Keys |-> Absent]
FreeCell == [kind |-> "free", items |-> EmptyItems]
DictCell(items) == [kind |-> "dict", items |-> items]
\* values that are not dicts: a list has copy() but no string keys, a string
\* has neither
ListCell == [kind |-> "list", items |-> EmptyItems]
StrCell == [kind |-> "str", items |-> EmptyItems]

Versions == 0..MaxVer
\* two threads using cf_state: enough for any two methods to overlap
Callers == {1, 2}
\* what update number v is called with: token, user agent, cookie value;
\* number 0 is an update without a token (cf_clearance=None)
TokOf(v) == IF v = 0 THEN PyNone ELSE Str(v)
UAOf(v) == Str(10 + v)
SidOf(v) == Str(20 + v)
\* what a caller may pass as `cookies`: the solver's JSON value, of any type
CookieArgs == {"none", "dict", "list", "str"}
CookieCell(kind, v) ==
  IF kind = "dict" THEN DictCell([EmptyItems EXCEPT !["sid"] = SidOf(v)])
  ELSE IF kind = "list" THEN ListCell
  ELSE StrCell

VARIABLES
  now,          \* time.time()
  ticks,        \* clock advances so far
  cf,           \* cf_state: the fields of the CloudflareState instance
  cfLock,       \* cf_state._lock: 0, or the thread inside a `with self._lock`
  heap,         \* the dict objects
  invalidated,  \* history: invalidate() or clear() ran since the last update()
  cpc,          \* per caller: its position inside a CloudflareState method
  carg,         \* per caller: the arguments of its running update
  cres,         \* per caller: the mapping get_request_data is building / returned
  cval,         \* per caller: what its last read of is_valid returned
  held,         \* per caller: the dict it passed to update (0: none)
  account_index,    \* app.account_index
  proxy_index,      \* app.proxy_index
  accounts_cache,   \* app._accounts_cache: data (None or a list), expires
  settings_cache,   \* app._settings_cache: data (None or a mapping), expires
  accEnabled,       \* table sora_accounts: the enabled column
  accOrder,         \* table sora_accounts: the rows by last_used_at, NULLs first
  prxEnabled,       \* table proxies: the enabled column
  prxOrder,         \* table proxies: the rows by last_used_at, NULLs first
  dbSettings,       \* table settings
  sel,              \* per selector thread: position and locals of its call
  apc,              \* the admin thread: its position in api_update_account
  atarget,          \* the admin thread: the account it updates
  accRun,           \* history: what get_next_account returned since its snapshot changed
  accLast,          \* history: its latest return: index it found, snapshot, result
  prxRun,           \* history: the same for get_next_proxy
  prxLast,
  lastFetch,        \* history: per cache, when the store was last read for it
  accToken,         \* table sora_accounts: the access_token, refresh_token columns
  snapToken,        \* the same keys of the dicts in _accounts_cache['data']
  disp              \* per dispatch thread: position and locals of its get_sora_link

clockVars == <<now, ticks>>
cfVars == <<cf, cfLock, heap, invalidated>>
callerVars == <<cpc, carg, cres, cval, held>>
storeVars == <<accEnabled, accOrder, prxEnabled, prxOrder, dbSettings>>
cacheVars == <<account_index, proxy_index, accounts_cache, settings_cache>>
selVars == <<sel, apc, atarget, accRun, accLast, prxRun, prxLast, lastFetch>>
tokenVars == <<accToken, snapToken>>
vars == <<clockVars, cfVars, callerVars, storeVars, cacheVars, selVars, tokenVars, disp>>

\* ------------------------------------------------------------------- heap
NoResult == [some |-> FALSE, user_agent |-> PyNone, cookies |-> 0, cf_clearance |-> PyNone]

Roots(cfs, hld, res) ==
  {cfs.cookies} \cup {hld[c] : c \in Callers} \cup {res[c].cookies : c \in Callers}

\* objects no reference reaches are returned to the allocator
Collect(h, roots) == [o \in ObjIds |-> IF o \in roots THEN h[o] ELSE FreeCell]

FreeIds(h) == {o \in ObjIds : h[o].kind = "free"}
Alloc(h) == CHOOSE o \in FreeIds(h) : \A p \in FreeIds(h) : o <= p

\* ------------------------------------------------------- CloudflareState
\* __init__
CfInit == [cf_clearance |-> PyNone, user_agent |-> PyNone, cookies |-> 1,
           expires_at |-> 0, is_valid |-> FALSE]

\* `with self._lock:` entered by thread c (an RLock: free, or already c's)
CanAcquire(c) == cfLock = 0 \/ cfLock = c

\* the test `time.time() > self._expires_at`
ExpiredAtOrAfter(t, e) == t >= e
Expired(t, e) == t > e

\* is_valid (property)
is_valid(cfs, t) ==
  IF ~cfs.is_valid \/ ~Truthy(cfs.cf_clearance) THEN FALSE
  ELSE IF Expired(t, cfs.expires_at) THEN FALSE
  ELSE TRUE

\* a thread entering a method lets go of what its previous call left it
DropLocals(c) ==
  /\ held' = [held EXCEPT ![c] = 0]
  /\ cres' = [cres EXCEPT ![c] = NoResult]
  /\ cval' = [cval EXCEPT ![c] = "unread"]

\* update(), statement by statement, run by caller c under the lock.
\* The caller first builds the cookies value it passes (or passes None).
UpdBegin(c, v, kind) ==
  /\ cpc[c] = "idle"
  /\ CanAcquire(c)
  /\ kind # "none" => FreeIds(heap) # {}
  /\ LET o == IF kind # "none" THEN Alloc(heap) ELSE 0
         h1 == IF kind # "none"
                 THEN [heap EXCEPT ![o] = CookieCell(kind, v)]
                 ELSE heap
     IN  /\ held' = [held EXCEPT ![c] = o]
         /\ cres' = [cres EXCEPT ![c] = NoResult]
         /\ cf' = [cf EXCEPT !.cf_clearance = TokOf(v)]
         /\ heap' = Collect(h1, Roots(cf', held', cres'))
  /\ cfLock' = c
  /\ carg' = [carg EXCEPT ![c] = v]
  /\ cval' = [cval EXCEPT ![c] = "unread"]
  /\ cpc' = [cpc EXCEPT ![c] = "upd_ua"]
  /\ UNCHANGED <<now, ticks, invalidated>>

UpdUserAgent(c) ==
  /\ cpc[c] = "upd_ua"
  /\ cf' = [cf EXCEPT !.user_agent = UAOf(carg[c])]
  /\ cpc' = [cpc EXCEPT ![c] = "upd_cookies"]
  /\ UNCHANGED <<now, ticks, cfLock, heap, invalidated, carg, cres, cval, held>>

\* self._cookies = cookies or {};  if cf_clearance: self._cookies['cf_clearance'] = ...
\* The item assignment raises TypeError when the value is not a dict: the
\* exception leaves the `with` block (the lock is released) and the method,
\* with _expires_at and _is_valid as they were.
UpdCookies(c) ==
  /\ cpc[c] = "upd_cookies"
  /\ held[c] = 0 => FreeIds(heap) # {}
  /\ LET target == IF held[c] # 0 THEN held[c] ELSE Alloc(heap)
         h1 == IF held[c] # 0 THEN heap ELSE [heap EXCEPT ![target] = DictCell(EmptyItems)]
         raises == Truthy(cf.cf_clearance) /\ h1[target].kind # "dict"
         h2 == IF Truthy(cf.cf_clearance) /\ ~raises
                 THEN [h1 EXCEPT ![target].items["cf_clearance"] = cf.cf_clearance]
                 ELSE h1
     IN  /\ cf' = [cf EXCEPT !.cookies = target]
         /\ heap' = Collect(h2, Roots(cf', held, cres))
         /\ IF raises
              THEN /\ cfLock' = 0
                   /\ carg' = [carg EXCEPT ![c] = 0]
                   /\ cpc' = [cpc EXCEPT ![c] = "idle"]
              ELSE /\ cpc' = [cpc EXCEPT ![c] = "upd_expires"]
                   /\ UNCHANGED <<cfLock, carg>>
  /\ UNCHANGED <<now, ticks, invalidated, cres, cval, held>>

UpdExpires(c) ==
  /\ cpc[c] = "upd_expires"
  /\ cf' = [cf EXCEPT !.expires_at = now + DefaultTtl]
  /\ cpc' = [cpc EXCEPT ![c] = "upd_valid"]
  /\ UNCHANGED <<now, ticks, cfLock, heap, invalidated, carg, cres, cval, held>>

UpdValid(c) ==
  /\ cpc[c] = "upd_valid"
  /\ cf' = [cf EXCEPT !.is_valid = TRUE]
  /\ invalidated' = FALSE
  /\ cfLock' = 0
  /\ carg' = [carg EXCEPT ![c] = 0]
  /\ cpc' = [cpc EXCEPT ![c] = "idle"]
  /\ UNCHANGED <<now, ticks, heap, cres, cval, held>>

\* invalidate()
Invalidate(c) ==
  /\ cpc[c] = "idle"
  /\ CanAcquire(c)
  /\ cf' = [cf EXCEPT !.is_valid = FALSE]
  /\ invalidated' = TRUE
  /\ DropLocals(c)
  /\ heap' = Collect(heap, Roots(cf', held', cres'))
  /\ UNCHANGED <<now, ticks, cfLock, cpc, carg>>

\* clear(), statement by statement
ClrBegin(c) ==
  /\ cpc[c] = "idle"
  /\ CanAcquire(c)
  /\ cfLock' = c
  /\ cf' = [cf EXCEPT !.cf_clearance = PyNone]
  /\ cpc' = [cpc EXCEPT ![c] = "clr_ua"]
  /\ DropLocals(c)
  /\ heap' = Collect(heap, Roots(cf', held', cres'))
  /\ UNCHANGED <<now, ticks, invalidated, carg>>

ClrUserAgent(c) ==
  /\ cpc[c] = "clr_ua"
  /\ cf' = [cf EXCEPT !.user_agent = PyNone]
  /\ cpc' = [cpc EXCEPT ![c] = "clr_cookies"]
  /\ UNCHANGED <<now, ticks, cfLock, heap, invalidated, carg, cres, cval, held>>

ClrCookies(c) ==
  /\ cpc[c] = "clr_cookies"
  /\ FreeIds(heap) # {}
  /\ LET o == Alloc(heap)
     IN  /\ cf' = [cf EXCEPT !.cookies = o]
         /\ heap' = Collect([heap EXCEPT ![o] = DictCell(EmptyItems)], Roots(cf', held, cres))
  /\ cpc' = [cpc EXCEPT ![c] = "clr_expires"]
  /\ UNCHANGED <<now, ticks, cfLock, invalidated, carg, cres, cval, held>>

ClrExpires(c) ==
  /\ cpc[c] = "clr_expires"
  /\ cf' = [cf EXCEPT !.expires_at = 0]
  /\ cpc' = [cpc EXCEPT ![c] = "clr_valid"]
  /\ UNCHANGED <<now, ticks, cfLock, heap, invalidated, carg, cres, cval, held>>

ClrValid(c) ==
  /\ cpc[c] = "clr_valid"
  /\ cf' = [cf EXCEPT !.is_valid = FALSE]
  /\ invalidated' = TRUE
  /\ cfLock' = 0
  /\ cpc' = [cpc EXCEPT ![c] = "idle"]
  /\ UNCHANGED <<now, ticks, heap, carg, cres, cval, held>>

\* get_request_data(): the two tests, then the mapping built entry by entry
GetCheck(c) ==
  /\ cpc[c] = "idle"
  /\ CanAcquire(c)
  /\ DropLocals(c)
  /\ heap' = Collect(heap, Roots(cf, held', cres'))
  /\ IF ~cf.is_valid \/ ~Truthy(cf.cf_clearance)
       THEN UNCHANGED <<cf, cfLock, cpc>>
       ELSE IF Expired(now, cf.expires_at)
         THEN /\ cf' = [cf EXCEPT !.is_valid = FALSE]
              /\ UNCHANGED <<cfLock, cpc>>
         ELSE /\ cfLock' = c
              /\ cpc' = [cpc EXCEPT ![c] = "get_ua"]
              /\ UNCHANGED cf
  /\ UNCHANGED <<now, ticks, invalidated, carg>>

GetUserAgent(c) ==
  /\ cpc[c] = "get_ua"
  /\ cres' = [cres EXCEPT ![c].user_agent = cf.user_agent]
  /\ cpc' = [cpc EXCEPT ![c] = "get_cookies"]
  /\ UNCHANGED <<now, ticks, cf, cfLock, heap, invalidated, carg, cval, held>>

\* self._cookies.copy(): a new object of the same type with the same items;
\* AttributeError when the value has no copy(): the exception leaves the
\* `with` block and the method, and the caller gets no result
GetCookies(c) ==
  /\ cpc[c] = "get_cookies"
  /\ IF heap[cf.cookies].kind = "str"
       THEN /\ cres' = [cres EXCEPT ![c] = NoResult]
            /\ cfLock' = 0
            /\ cpc' = [cpc EXCEPT ![c] = "idle"]
            /\ UNCHANGED heap
       ELSE /\ FreeIds(heap) # {}
            /\ LET o == Alloc(heap)
               IN  /\ cres' = [cres EXCEPT ![c].cookies = o]
                   /\ heap' = [heap EXCEPT ![o] = heap[cf.cookies]]
            /\ cpc' = [cpc EXCEPT ![c] = "get_clearance"]
            /\ UNCHANGED cfLock
  /\ UNCHANGED <<now, ticks, cf, invalidated, carg, cval, held>>

GetClearance(c) ==
  /\ cpc[c] = "get_clearance"
  /\ cres' = [cres EXCEPT ![c].cf_clearance = cf.cf_clearance, ![c].some = TRUE]
  /\ cfLock' = 0
  /\ cpc' = [cpc EXCEPT ![c] = "idle"]
  /\ UNCHANGED <<now, ticks, cf, heap, invalidated, carg, cval, held>>

\* a thread reads the is_valid property
IsValidCall(c) ==
  /\ cpc[c] = "idle"
  /\ CanAcquire(c)
  /\ cval' = [cval EXCEPT ![c] = IF is_valid(cf, now) THEN "true" ELSE "false"]
  /\ held' = [held EXCEPT ![c] = 0]
  /\ cres' = [cres EXCEPT ![c] = NoResult]
  /\ heap' = Collect(heap, Roots(cf, held', cres'))
  /\ UNCHANGED <<now, ticks, cf, cfLock, invalidated, cpc, carg>>

\* the caller changes an entry of the dict it passed to update
MutatePassed(c) ==
  /\ cpc[c] = "idle"
  /\ held[c] # 0
  /\ heap[held[c]].kind = "dict"
  /\ \E k \in Keys :
       /\ heap[held[c]].items[k] # Str(99)
       /\ heap' = [heap EXCEPT ![held[c]].items[k] = Str(99)]
  /\ UNCHANGED <<now, ticks, cf, cfLock, invalidated, cpc, carg, cres, cval, held>>
  /\ UNCHANGED <<storeVars, cacheVars, selVars, tokenVars, disp>>

\* the caller changes an entry of the mapping get_request_data returned:
\* a top-level entry, or an entry of its 'cookies'
MutateReturned(c) ==
  /\ cpc[c] = "idle"
  /\ cres[c].some
  /\ \/ /\ cres[c].user_agent # Str(99)
        /\ cres' = [cres EXCEPT ![c].user_agent = Str(99)]
        /\ UNCHANGED heap
     \/ /\ cres[c].cf_clearance # Str(99)
        /\ cres' = [cres EXCEPT ![c].cf_clearance = Str(99)]
        /\ UNCHANGED heap
     \/ \E k \in Keys :
          /\ heap[cres[c].cookies].kind = "dict"
          /\ heap[cres[c].cookies].items[k] # Str(99)
          /\ heap' = [heap EXCEPT ![cres[c].cookies].items[k] = Str(99)]
          /\ UNCHANGED cres
  /\ UNCHANGED <<now, ticks, cf, cfLock, invalidated, cpc, carg, cval, held>>
  /\ UNCHANGED <<storeVars, cacheVars, selVars, tokenVars, disp>>

\* ------------------------------------------------------ store (database.py)
Accounts == 1..NAcc
Proxies == 1..NPrx
\* the ids of a table's rows
Rows(order) == {order[i] : i \in 1..Len(order)}

NoList == [some |-> FALSE, list |-> <<>>]          \* None
List(l) == [some |-> TRUE, list |-> l]

\* SELECT * FROM t WHERE enabled=1 ORDER BY last_used_at ASC NULLS FIRST
EnabledIn(order, enabled) == SelectSeq(order, LAMBDA x : enabled[x])
get_enabled_accounts == EnabledIn(accOrder, accEnabled)
get_enabled_proxies == EnabledIn(prxOrder, prxEnabled)

\* UPDATE t SET last_used_at=now ...: the row becomes the most recently used
MoveToEnd(order, x) == SelectSeq(order, LAMBDA y : y # x) \o <<x>>

\* init_db's default settings, as the tests the code makes of them
DefaultSettings ==
  [proxy_enabled |-> FALSE, proxy_pool_enabled |-> FALSE, cf_solver_enabled |-> FALSE,
   retry_on_429 |-> TRUE, retry_on_403 |-> TRUE, max_retries |-> 3]
NoSettings == [some |-> FALSE, val |-> DefaultSettings]     \* None

\* the table's order after the row's last_used_at is set to now
update_account_usage(a) == MoveToEnd(accOrder, a)
\* ... and the counter it adds one to
CountUsage(u, success) ==
  IF success THEN [u EXCEPT !.request_count = @ + 1] ELSE [u EXCEPT !.error_count = @ + 1]
update_proxy_usage(p) == MoveToEnd(prxOrder, p)

update_proxy(p, en) ==
  /\ p \in Rows(prxOrder)
  /\ prxEnabled[p] # en
  /\ prxEnabled' = [prxEnabled EXCEPT ![p] = en]
  /\ UNCHANGED <<accEnabled, accOrder, prxOrder, dbSettings>>

\* ------------------------------------------------------------- selectors
SelThreads == {1, 2}

\* no store read yet
NeverFetched == [at |-> 0, clock |-> 0]

SelIdle == [pc |-> "idle", tnow |-> 0, fetched |-> <<>>, snap |-> NoList,
            settings |-> NoSettings, early |-> FALSE]
NoSel == [idx |-> 0, snap |-> NoList, res |-> 0]

\* `index = index % len(items)`
NormalizeNone(i, n) == i
Normalize(i, n) == i % n

\* `expires = now + ttl`
ExpiresAtOnce(t, ttl) == t
ExpiresAt(t, ttl) == t + ttl

\* `index += 1`
AdvanceStuck(i) == i
Advance(i) == i + 1

\* the run of results a selector has returned on one unchanged snapshot,
\* cut to the last len+1
Extend(run, last, snap, item) ==
  IF run # <<>> /\ snap = last.snap.list
    THEN IF Len(run) > Len(snap) THEN Tail(run) \o <<item>> ELSE run \o <<item>>
    ELSE <<item>>

\* get_next_account ---------------------------------------------------------
\* the positions inside get_next_account
GaPcs == {"ga_fetch", "ga_store_data", "ga_store_exp", "ga_read", "ga_select"}

\* now = time.time();  if data is None or now >= expires
GA_Begin(t) ==
  /\ sel[t].pc = "idle"
  /\ sel' = [sel EXCEPT ![t] =
       IF ~accounts_cache.data.some \/ now >= accounts_cache.expires
         THEN [SelIdle EXCEPT !.pc = "ga_fetch", !.tnow = now]
         ELSE [SelIdle EXCEPT !.pc = "ga_read"]]
  /\ UNCHANGED <<apc, atarget, accRun, accLast, prxRun, prxLast, lastFetch>>
  /\ UNCHANGED <<cacheVars, storeVars>>

\* db.get_enabled_accounts()
GA_Fetch(t) ==
  /\ sel[t].pc = "ga_fetch"
  /\ sel' = [sel EXCEPT ![t].fetched = get_enabled_accounts, ![t].pc = "ga_store_data"]
  /\ UNCHANGED <<apc, atarget, accRun, accLast, prxRun, prxLast>>
  /\ UNCHANGED <<cacheVars, storeVars>>
  /\ lastFetch' = [lastFetch EXCEPT !.acc = [at |-> now, clock |-> sel[t].tnow]]

\* _accounts_cache['data'] = ...
GA_StoreData(t) ==
  /\ sel[t].pc = "ga_store_data"
  /\ accounts_cache' = [accounts_cache EXCEPT !.data = List(sel[t].fetched)]
  /\ sel' = [sel EXCEPT ![t].fetched = <<>>, ![t].pc = "ga_store_exp"]
  /\ UNCHANGED <<apc, atarget, accRun, accLast, prxRun, prxLast, lastFetch>>
  /\ UNCHANGED <<account_index, proxy_index, settings_cache, storeVars>>

\* _accounts_cache['expires'] = now + 10
GA_StoreExpires(t) ==
  /\ sel[t].pc = "ga_store_exp"
  /\ accounts_cache' = [accounts_cache EXCEPT !.expires = ExpiresAt(sel[t].tnow, AccountsTtl)]
  /\ sel' = [sel EXCEPT ![t].tnow = 0, ![t].pc = "ga_read"]
  /\ UNCHANGED <<apc, atarget, accRun, accLast, prxRun, prxLast, lastFetch>>
  /\ UNCHANGED <<account_index, proxy_index, settings_cache, storeVars>>

\* accounts = _accounts_cache['data'];  if not accounts: return None
GA_Read(t) ==
  /\ sel[t].pc = "ga_read"
  /\ IF accounts_cache.data.list = <<>>
       THEN /\ sel' = [sel EXCEPT ![t] = SelIdle]
            /\ accRun' = <<>>
            /\ accLast' = [idx |-> 0, snap |-> accounts_cache.data, res |-> 0]
       ELSE /\ sel' = [sel EXCEPT ![t].snap = accounts_cache.data, ![t].pc = "ga_select"]
            /\ UNCHANGED <<accRun, accLast>>
  /\ UNCHANGED <<apc, atarget, prxRun, prxLast, lastFetch>>
  /\ UNCHANGED <<cacheVars, storeVars>>

\* with index_lock: account_index = account_index % len(accounts);
\*   account = accounts[account_index] (IndexError past the end);
\*   account_index += 1
\* return account.
\* Every access to account_index and proxy_index is inside `with index_lock`,
\* so the block is one step.
GA_Select(t) ==
  /\ sel[t].pc = "ga_select"
  /\ LET items == sel[t].snap.list
         i == Normalize(account_index, Len(items))
     IN IF i < Len(items)
          THEN /\ account_index' = Advance(i)
               /\ sel' = [sel EXCEPT ![t] = SelIdle]
               /\ accRun' = Extend(accRun, accLast, items, items[i + 1])
               /\ accLast' = [idx |-> account_index, snap |-> sel[t].snap, res |-> items[i + 1]]
          ELSE /\ account_index' = i
               /\ sel' = [sel EXCEPT ![t].pc = "raised"]
               /\ UNCHANGED <<accRun, accLast>>
  /\ UNCHANGED <<apc, atarget, prxRun, prxLast, lastFetch>>
  /\ UNCHANGED <<proxy_index, accounts_cache, settings_cache, storeVars>>

\* get_settings, as called by get_next_proxy --------------------------------
\* now = time.time();  if data is not None and now < expires
GP_Begin(t) ==
  /\ sel[t].pc = "idle"
  /\ sel' = [sel EXCEPT ![t] =
       IF settings_cache.data.some /\ now < settings_cache.expires
         THEN [SelIdle EXCEPT !.pc = "gs_return"]
         ELSE [SelIdle EXCEPT !.pc = "gs_fetch", !.tnow = now]]
  /\ UNCHANGED <<apc, atarget, accRun, accLast, prxRun, prxLast, lastFetch>>
  /\ UNCHANGED <<cacheVars, storeVars>>

\* return _settings_cache['data']
GS_Return(t) ==
  /\ sel[t].pc = "gs_return"
  /\ sel' = [sel EXCEPT ![t].settings = settings_cache.data, ![t].pc = "gp_check"]
  /\ UNCHANGED <<apc, atarget, accRun, accLast, prxRun, prxLast, lastFetch>>
  /\ UNCHANGED <<cacheVars, storeVars>>

\* settings = db.get_all_settings()
GS_Fetch(t) ==
  /\ sel[t].pc = "gs_fetch"
  /\ sel' = [sel EXCEPT ![t].settings = [some |-> TRUE, val |-> dbSettings],
                        ![t].pc = "gs_store_data"]
  /\ UNCHANGED <<apc, atarget, accRun, accLast, prxRun, prxLast>>
  /\ UNCHANGED <<cacheVars, storeVars>>
  /\ lastFetch' = [lastFetch EXCEPT !.set = [at |-> now, clock |-> sel[t].tnow]]

\* _settings_cache['data'] = settings
GS_StoreData(t) ==
  /\ sel[t].pc = "gs_store_data"
  /\ settings_cache' = [settings_cache EXCEPT !.data = sel[t].settings]
  /\ sel' = [sel EXCEPT ![t].pc = "gs_store_exp"]
  /\ UNCHANGED <<apc, atarget, accRun, accLast, prxRun, prxLast, lastFetch>>
  /\ UNCHANGED <<account_index, proxy_index, accounts_cache, storeVars>>

\* _settings_cache['expires'] = now + 30;  return settings
GS_StoreExpires(t) ==
  /\ sel[t].pc = "gs_store_exp"
  /\ settings_cache' = [settings_cache EXCEPT !.expires = ExpiresAt(sel[t].tnow, SettingsTtl)]
  /\ sel' = [sel EXCEPT ![t].tnow = 0, ![t].pc = "gp_check"]
  /\ UNCHANGED <<apc, atarget, accRun, accLast, prxRun, prxLast, lastFetch>>
  /\ UNCHANGED <<account_index, proxy_index, accounts_cache, storeVars>>

\* get_next_proxy -----------------------------------------------------------
\* settings.get('proxy_enabled') != '1': return None;
\* settings.get('proxy_pool_enabled') == '1': go on to the pool, else None
GP_Check(t) ==
  /\ sel[t].pc = "gp_check"
  /\ IF ~sel[t].settings.some
       THEN /\ sel' = [sel EXCEPT ![t].pc = "raised"]       \* None.get
            /\ UNCHANGED <<prxRun, prxLast>>
       ELSE IF sel[t].settings.val.proxy_enabled /\ sel[t].settings.val.proxy_pool_enabled
         THEN /\ sel' = [sel EXCEPT ![t].settings = NoSettings, ![t].pc = "gp_fetch"]
              /\ UNCHANGED <<prxRun, prxLast>>
         ELSE /\ sel' = [sel EXCEPT ![t] = SelIdle]
              /\ prxRun' = <<>>
              /\ prxLast' = NoSel
  /\ UNCHANGED <<apc, atarget, accRun, accLast, lastFetch>>
  /\ UNCHANGED <<cacheVars, storeVars>>

\* proxies = db.get_enabled_proxies();  if proxies: ... ;  return None
GP_Fetch(t) ==
  /\ sel[t].pc = "gp_fetch"
  /\ IF get_enabled_proxies = <<>>
       THEN /\ sel' = [sel EXCEPT ![t] = SelIdle]
            /\ prxRun' = <<>>
            /\ prxLast' = [idx |-> 0, snap |-> List(<<>>), res |-> 0]
       ELSE /\ sel' = [sel EXCEPT ![t].snap = List(get_enabled_proxies), ![t].pc = "gp_select"]
            /\ UNCHANGED <<prxRun, prxLast>>
  /\ UNCHANGED <<apc, atarget, accRun, accLast>>
  /\ UNCHANGED <<cacheVars, storeVars>>
  /\ lastFetch' = [lastFetch EXCEPT !.prx = [at |-> now, clock |-> now]]

\* with index_lock: proxy_index = proxy_index % len(proxies);
\*   proxy = proxies[proxy_index] (IndexError past the end);  proxy_index += 1
\* return proxy
GP_Select(t) ==
  /\ sel[t].pc = "gp_select"
  /\ LET items == sel[t].snap.list
         i == Normalize(proxy_index, Len(items))
     IN IF i < Len(items)
          THEN /\ proxy_index' = Advance(i)
               /\ sel' = [sel EXCEPT ![t] = SelIdle]
               /\ prxRun' = Extend(prxRun, prxLast, items, items[i + 1])
               /\ prxLast' = [idx |-> proxy_index, snap |-> sel[t].snap, res |-> items[i + 1]]
          ELSE /\ proxy_index' = i
               /\ sel' = [sel EXCEPT ![t].pc = "raised"]
               /\ UNCHANGED <<prxRun, prxLast>>
  /\ UNCHANGED <<apc, atarget, accRun, accLast, lastFetch>>
  /\ UNCHANGED <<account_index, accounts_cache, settings_cache, storeVars>>

\* api_update_account (enabled flag) / api_delete_account -------------------
\* db.update_account(account_id, enabled=en) of an existing row
AdminUpdateAccount(a, en) ==
  /\ apc = "idle"
  /\ a \in Rows(accOrder)
  /\ accEnabled[a] # en
  /\ accEnabled' = [accEnabled EXCEPT ![a] = en]
  /\ apc' = "inv_data"
  /\ atarget' = a
  /\ UNCHANGED <<accOrder, prxEnabled, prxOrder, dbSettings>>
  /\ UNCHANGED <<cacheVars, sel, accRun, accLast, prxRun, prxLast, lastFetch>>

\* invalidate_accounts_cache: _accounts_cache['data'] = None
AdminInvalidateData ==
  /\ apc = "inv_data"
  /\ accounts_cache' = [accounts_cache EXCEPT !.data = NoList]
  /\ apc' = "inv_exp"
  /\ UNCHANGED <<account_index, proxy_index, settings_cache, storeVars>>
  /\ UNCHANGED <<sel, atarget, accRun, accLast, prxRun, prxLast, lastFetch>>

\* invalidate_accounts_cache: _accounts_cache['expires'] = 0; the request is
\* done: the calls now running began before it was
AdminInvalidateExpires ==
  /\ apc = "inv_exp"
  /\ accounts_cache' = [accounts_cache EXCEPT !.expires = 0]
  /\ apc' = "idle"
  /\ atarget' = 0
  /\ sel' = [t \in SelThreads |->
              IF sel[t].pc \in GaPcs THEN [sel[t] EXCEPT !.early = TRUE] ELSE sel[t]]
  /\ UNCHANGED <<account_index, proxy_index, settings_cache, storeVars>>
  /\ UNCHANGED <<accRun, accLast, prxRun, prxLast, lastFetch>>

\* the accounts whose disabling request has completed
Banned == {a \in Rows(accOrder) : ~accEnabled[a] /\ a # atarget}

\* api_update_proxy: db.update_proxy(proxy_id, enabled=en), no cache to drop
AdminUpdateProxy(p, en) ==
  /\ update_proxy(p, en)
  /\ UNCHANGED <<cacheVars, selVars>>

\* get_sora_link's outcome recording, of some other request
RecordProxyUsage(p) ==
  /\ p \in Rows(prxOrder)
  /\ prxOrder # update_proxy_usage(p)
  /\ prxOrder' = update_proxy_usage(p)
  /\ UNCHANGED <<accEnabled, accOrder, prxEnabled, dbSettings>>
  /\ UNCHANGED <<cacheVars, selVars>>

\* ------------------------------------------------------------- dispatcher
DispThreads == {1, 2}

\* the locals of get_sora_link / process_sora_request, and what the call has
\* done so far: upstream calls issued, 401s answered by a successful refresh,
\* whether every response was a 429, and the solver call made since the last
\* upstream call: none, one that returned None, or one that returned the
\* result numbered `minted`; accfrom: the snapshot `account` is a dict of;
\* usage: what the call's update_account_usage calls have added to the
\* counters of its account (an idle thread keeps those of its last call);
\* refresh_token: account['refresh_token'], which no statement assigns;
\* carried: the upstream request awaiting its response was sent with a
\* token; overtaken: cf_state.update ran since it was sent
NoUsage == [request_count |-> 0, error_count |-> 0]
\* the tokens an account was added with
FirstTokens == [access_token |-> 0, refresh_token |-> 0]
DispIdle ==
  [pc |-> "idle", after |-> "-", attempt |-> 0, account |-> 0, proxy |-> 0, proxy_id0 |-> 0, snap |-> <<>>,
   last_error |-> "none", outcome |-> "none", calls |-> 0, refreshed |-> 0, all429 |-> TRUE,
   solved |-> "no", minted |-> 0, accfrom |-> NeverFetched, usage |-> NoUsage,
   refresh_token |-> 0, carried |-> FALSE, overtaken |-> FALSE]

\* cf_state.get_request_data(): None, None on finding the state expired,
\* AttributeError when _cookies has no copy(), or the data
RequestOutcome(cfs, h, t) ==
  IF ~cfs.is_valid \/ ~Truthy(cfs.cf_clearance) THEN "none"
  ELSE IF Expired(t, cfs.expires_at) THEN "expired"
  ELSE IF h[cfs.cookies].kind # "dict" THEN "raise"
  ELSE "data"

\* ... and the state it leaves
AfterRequest(cfs, h, t) ==
  IF RequestOutcome(cfs, h, t) = "expired" THEN [cfs EXCEPT !.is_valid = FALSE] ELSE cfs

\* cf_state.update(cf_clearance, user_agent, cookies) with a dict
UpdatedState(v, t) ==
  [cf_clearance |-> TokOf(v), user_agent |-> UAOf(v), cookies |-> 1,
   expires_at |-> t + DefaultTtl, is_valid |-> TRUE]
UpdatedCookies(v) ==
  DictCell([EmptyItems EXCEPT !["sid"] = SidOf(v),
                              !["cf_clearance"] = IF Truthy(TokOf(v)) THEN TokOf(v) ELSE Absent])

\* cf_state.update with a token and cookies that are not a dict:
\* `self._cookies['cf_clearance'] = cf_clearance` raises TypeError after the
\* first three fields are written; _expires_at and _is_valid stay
HalfUpdatedState(cfs, v) ==
  [cfs EXCEPT !.cf_clearance = TokOf(v), !.user_agent = UAOf(v), !.cookies = 1]

\* the loop goes on to its next upstream call; `continue` takes the next
\* value of `for attempt in range(max_retries + 1)`, and the loop ends
\* (return failure with last_error) when there is none
NextAttempt(rec) ==
  IF rec.attempt + 1 > dbSettings.max_retries
    THEN [rec EXCEPT !.pc = "done", !.outcome = "ABORT", !.after = "-", !.attempt = @ + 1]
    ELSE [rec EXCEPT !.pc = "call", !.after = "-", !.attempt = @ + 1]

\* where a call goes after the solver (or without it)
Continue(rec) ==
  IF rec.after = "first" THEN [rec EXCEPT !.pc = "call", !.after = "-"] ELSE NextAttempt(rec)

\* after get_next_proxy returned p: before the first attempt (get_sora_link),
\* or in the 429 branch, where get_cf_clearance and the sleep follow
AfterProxy(rec, p) ==
  IF rec.after = "first"
    THEN [rec EXCEPT !.proxy = p, !.proxy_id0 = p, !.snap = <<>>, !.pc = "pre"]
    ELSE IF dbSettings.cf_solver_enabled
      THEN [rec EXCEPT !.proxy = p, !.snap = <<>>, !.pc = "solve"]
      ELSE NextAttempt([rec EXCEPT !.proxy = p, !.snap = <<>>])

\* get_sora_link: get_next_account (its statements in one step: the snapshot
\* is read from the store when there is none or its lifetime is over, and
\* `account` is one of its dicts), then the checks of the request (token,
\* url, link format), then get_next_proxy up to its read of the store
D_Begin(t, valid) ==
  /\ disp[t].pc = "idle"
  /\ LET refill == ~accounts_cache.data.some \/ now >= accounts_cache.expires
         fetch == [at |-> now, clock |-> now]
         accounts == IF refill THEN get_enabled_accounts ELSE accounts_cache.data.list
     IN /\ accounts_cache' =
             IF refill
               THEN [data |-> List(get_enabled_accounts), expires |-> ExpiresAt(now, AccountsTtl)]
               ELSE accounts_cache
        /\ snapToken' = IF refill THEN accToken ELSE snapToken
        /\ lastFetch' = IF refill THEN [lastFetch EXCEPT !.acc = fetch] ELSE lastFetch
        /\ IF accounts = <<>>
             THEN UNCHANGED <<disp, account_index>>
             ELSE LET i == Normalize(account_index, Len(accounts))
                      a == accounts[i + 1]
                      rec == [DispIdle EXCEPT !.account = a, !.accfrom = lastFetch'.acc,
                                              !.refresh_token = snapToken'[a].refresh_token]
                  IN /\ account_index' = Advance(i)
                     /\ disp' = [disp EXCEPT ![t] =
                          IF ~valid THEN DispIdle
                          ELSE IF dbSettings.proxy_enabled /\ dbSettings.proxy_pool_enabled
                            THEN [rec EXCEPT !.pc = "gp_fetch", !.after = "first"]
                            ELSE [rec EXCEPT !.pc = "pre"]]
  /\ UNCHANGED <<cf, heap, invalidated, proxy_index, accOrder, prxOrder, accToken>>

\* get_next_proxy: proxies = db.get_enabled_proxies()
D_ProxyFetch(t) ==
  /\ disp[t].pc = "gp_fetch"
  /\ disp' = [disp EXCEPT ![t] =
       IF get_enabled_proxies = <<>>
         THEN AfterProxy(disp[t], 0)
         ELSE [disp[t] EXCEPT !.snap = get_enabled_proxies, !.pc = "gp_select"]]
  /\ UNCHANGED <<cf, heap, invalidated, account_index, proxy_index, accOrder, prxOrder>>
  /\ lastFetch' = [lastFetch EXCEPT !.prx = [at |-> now, clock |-> now]]
  /\ UNCHANGED <<accounts_cache, tokenVars>>

\* get_next_proxy: the `with index_lock` block
D_ProxySelect(t) ==
  /\ disp[t].pc = "gp_select"
  /\ LET i == Normalize(proxy_index, Len(disp[t].snap))
     IN /\ proxy_index' = Advance(i)
        /\ disp' = [disp EXCEPT ![t] = AfterProxy(disp[t], disp[t].snap[i + 1])]
  /\ UNCHANGED <<cf, heap, invalidated, account_index, accOrder, prxOrder>>
  /\ UNCHANGED <<accounts_cache, lastFetch, tokenVars>>

\* process_sora_request before the loop:
\* if cf_solver_enabled and not cf_state.is_valid: get_cf_clearance(...)
D_Pre(t) ==
  /\ disp[t].pc = "pre"
  /\ disp' = [disp EXCEPT ![t] =
       IF dbSettings.cf_solver_enabled /\ ~is_valid(cf, now)
         THEN [disp[t] EXCEPT !.pc = "solve", !.after = "first"]
         ELSE [disp[t] EXCEPT !.pc = "call", !.after = "-"]]
  /\ UNCHANGED <<cf, heap, invalidated, account_index, proxy_index, accOrder, prxOrder>>
  /\ UNCHANGED <<accounts_cache, lastFetch, tokenVars>>

SolverBodies == {"fail", "ok", "badcookies"}

\* solve_cf_challenge: the solver answers.  "fail": error, timeout, status
\* other than 200, success not true: None.  "ok": success with token v (or
\* none, v = 0) and a cookies dict: cf_state.update, result returned.
\* "badcookies": success with a token and cookies not a dict: update raises,
\* caught by `except Exception`: None.
D_Solve(t, body, v) ==
  /\ disp[t].pc = "solve"
  /\ \/ /\ body = "fail"
        /\ disp' = [disp EXCEPT ![t] = Continue([disp[t] EXCEPT !.solved = "failed", !.minted = 0])]
        /\ UNCHANGED <<cf, heap, invalidated>>
     \/ /\ body = "ok"
        /\ cf' = UpdatedState(v, now)
        /\ heap' = [heap EXCEPT ![1] = UpdatedCookies(v)]
        /\ invalidated' = FALSE
        /\ disp' = [u \in DispThreads |->
             IF u = t THEN [disp[t] EXCEPT !.pc = "getdata", !.solved = "ok", !.minted = v]
             ELSE IF disp[u].pc = "resp" THEN [disp[u] EXCEPT !.overtaken = TRUE]
             ELSE disp[u]]
     \/ /\ body = "badcookies"
        /\ Truthy(TokOf(v))
        /\ cf' = HalfUpdatedState(cf, v)
        /\ heap' = [heap EXCEPT ![1] = StrCell]
        /\ UNCHANGED invalidated
        /\ disp' = [disp EXCEPT ![t] = Continue([disp[t] EXCEPT !.solved = "failed", !.minted = 0])]
  /\ UNCHANGED <<account_index, proxy_index, accOrder, prxOrder>>
  /\ UNCHANGED <<accounts_cache, lastFetch, tokenVars>>

\* get_cf_clearance: `if result: return cf_state.get_request_data()`, called
\* outside any try (before the loop) or inside an except block (429, 403)
D_GetData(t) ==
  /\ disp[t].pc = "getdata"
  /\ cf' = AfterRequest(cf, heap, now)
  /\ disp' = [disp EXCEPT ![t] =
       IF RequestOutcome(cf, heap, now) = "raise"
         THEN [disp[t] EXCEPT !.pc = "raised"]
         ELSE Continue(disp[t])]
  /\ UNCHANGED <<heap, invalidated, account_index, proxy_index, accOrder, prxOrder>>
  /\ UNCHANGED <<accounts_cache, lastFetch, tokenVars>>

\* make_sora_api_call: cf_data = cf_state.get_request_data(), inside the
\* loop's try (an exception there ends the loop through `except Exception`),
\* then the request is sent
D_Call(t) ==
  /\ disp[t].pc = "call"
  /\ cf' = AfterRequest(cf, heap, now)
  /\ disp' = [disp EXCEPT ![t] =
       IF RequestOutcome(cf, heap, now) = "raise"
         THEN [disp[t] EXCEPT !.pc = "done", !.outcome = "ABORT", !.last_error = "exception",
                              !.solved = "no", !.minted = 0]
         ELSE [disp[t] EXCEPT !.pc = "resp", !.calls = @ + 1, !.solved = "no", !.minted = 0,
                              !.carried = RequestOutcome(cf, heap, now) = "data",
                              !.overtaken = FALSE]]
  /\ UNCHANGED <<heap, invalidated, account_index, proxy_index, accOrder, prxOrder>>
  /\ UNCHANGED <<accounts_cache, lastFetch, tokenVars>>

Responses == {"ok", "badbody", "s401", "s403", "s429", "other"}

\* `status_code == 429 and retry_on_429`, `status_code == 403 and retry_on_403`
RetryOnAlways(r, status, enabled) == r = status
RetryOn(r, status, enabled) == r = status /\ enabled

\* the upstream answers: 200 with the download link, 200 without it, 401,
\* 403, 429, or another status or a transport error
D_Response(t, r) ==
  /\ disp[t].pc = "resp"
  /\ LET rec == [disp[t] EXCEPT !.all429 = @ /\ r = "s429",
                                !.last_error = IF r = "ok" THEN @ ELSE r,
                                !.carried = FALSE, !.overtaken = FALSE]
         more == rec.attempt < dbSettings.max_retries
         abort == [rec EXCEPT !.pc = "done", !.outcome = "ABORT"]
     IN CASE r = "ok" ->
               /\ disp' = [disp EXCEPT ![t] = [rec EXCEPT !.pc = "done", !.outcome = "SUCCESS"]]
               /\ UNCHANGED <<cf, invalidated>>
          [] RetryOn(r, "s429", dbSettings.retry_on_429) ->
               /\ cf' = [cf EXCEPT !.is_valid = FALSE]
               /\ invalidated' = TRUE
               /\ disp' = [disp EXCEPT ![t] =
                    IF ~more THEN abort
                    ELSE IF dbSettings.proxy_enabled /\ dbSettings.proxy_pool_enabled
                      THEN [rec EXCEPT !.pc = "gp_fetch", !.after = "r429"]
                      ELSE AfterProxy([rec EXCEPT !.after = "r429"], 0)]
          [] RetryOn(r, "s403", dbSettings.retry_on_403) ->
               /\ cf' = [cf EXCEPT !.is_valid = FALSE]
               /\ invalidated' = TRUE
               /\ disp' = [disp EXCEPT ![t] =
                    IF ~more THEN abort
                    ELSE IF dbSettings.cf_solver_enabled
                      THEN [rec EXCEPT !.pc = "solve", !.after = "r403"]
                      ELSE NextAttempt(rec)]
          [] r = "s401" ->
               /\ disp' = [disp EXCEPT ![t] = [rec EXCEPT !.pc = "refresh"]]
               /\ UNCHANGED <<cf, invalidated>>
          [] OTHER ->
               /\ disp' = [disp EXCEPT ![t] = abort]
               /\ UNCHANGED <<cf, invalidated>>
  /\ UNCHANGED <<heap, account_index, proxy_index, accOrder, prxOrder>>
  /\ UNCHANGED <<accounts_cache, lastFetch, tokenVars>>

\* data['access_token'] of the token endpoint's answer: another token than
\* the one it replaces
RefreshedToken(k) == 1 - k
\* ... and data['refresh_token'] with it: the row after update_account_usage
\* stored both
RefreshedTokens(row) ==
  [access_token |-> RefreshedToken(row.access_token),
   refresh_token |-> RefreshedToken(row.refresh_token)]

\* the 401 branch: refresh_token answers.  On success the new tokens are
\* stored (db.update_account_usage), account['access_token'] is replaced (in
\* the dict get_next_account returned: the one in the cached list while that
\* list is the snapshot) and the loop continues; on failure last_error names
\* it and the loop breaks
D_Refresh(t, ok) ==
  /\ disp[t].pc = "refresh"
  /\ LET a == disp[t].account
         new == RefreshedTokens(accToken[a])
         cached == accounts_cache.data.some /\ lastFetch.acc = disp[t].accfrom
     IN IF ok
       THEN /\ accOrder' = update_account_usage(a)
            /\ accToken' = [accToken EXCEPT ![a] = new]
            /\ snapToken' = IF cached
                              THEN [snapToken EXCEPT ![a].access_token = new.access_token]
                              ELSE snapToken
            /\ disp' = [disp EXCEPT ![t] =
                 NextAttempt([disp[t] EXCEPT !.refreshed = @ + 1, !.usage = CountUsage(@, TRUE)])]
       ELSE /\ UNCHANGED <<accOrder, tokenVars>>
            /\ disp' = [disp EXCEPT ![t] =
                 [disp[t] EXCEPT !.pc = "done", !.outcome = "ABORT", !.last_error = "refresh_failed"]]
  /\ UNCHANGED <<cf, heap, invalidated, account_index, proxy_index, prxOrder>>
  /\ UNCHANGED <<accounts_cache, lastFetch>>

\* where the outcome recording may raise (sqlite3.Error: database locked,
\* disk full): in db.update_account_usage, db.update_proxy_usage, db.add_log
RecorderFailures == {"none", "account", "proxy", "log"}

\* get_sora_link after process_sora_request returned: the usage of the
\* account is recorded, and that of the proxy: of proxy_id on success, of
\* result['proxy_id'] on failure; then the log row is added and the response
\* is returned.  Nothing catches an exception of the three calls: the
\* statements before it have taken effect, the response is not returned.
D_Record(t, failure) ==
  /\ disp[t].pc = "done"
  /\ LET p == IF disp[t].outcome = "SUCCESS" THEN disp[t].proxy_id0 ELSE disp[t].proxy
     IN /\ failure = "proxy" => p # 0
        /\ prxOrder' = IF p = 0 \/ failure \in {"account", "proxy"}
                         THEN prxOrder ELSE update_proxy_usage(p)
  /\ accOrder' = IF failure = "account" THEN accOrder ELSE update_account_usage(disp[t].account)
  /\ LET u == IF failure = "account" THEN disp[t].usage
              ELSE CountUsage(disp[t].usage, disp[t].outcome = "SUCCESS")
     IN disp' = [disp EXCEPT ![t] =
          IF failure = "none" THEN [DispIdle EXCEPT !.usage = u]
          ELSE [DispIdle EXCEPT !.pc = "rec_raised", !.usage = u]]
  /\ UNCHANGED <<cf, heap, invalidated, account_index, proxy_index>>
  /\ UNCHANGED <<accounts_cache, lastFetch, tokenVars>>

\* an exception left process_sora_request, or the recording in
\* get_sora_link: the request ends as the framework's error response
D_Unwind(t) ==
  /\ disp[t].pc \in {"raised", "rec_raised"}
  /\ disp' = [disp EXCEPT ![t] = [DispIdle EXCEPT !.usage = disp[t].usage]]
  /\ UNCHANGED <<cf, heap, invalidated, account_index, proxy_index, accOrder, prxOrder>>
  /\ UNCHANGED <<accounts_cache, lastFetch, tokenVars>>

\* the clock, read by the methods at their first statement under the lock or
\* (update) at one statement: it moves between method calls, one second on, or
\* to the instant of expiry, or just past it
Instants ==
  {now + 1, cf.expires_at, cf.expires_at + 1, accounts_cache.expires, settings_cache.expires}
Tick ==
  /\ ticks < MaxTicks
  /\ cfLock = 0
  /\ \E t \in Instants : t > now /\ now' = t
  /\ ticks' = ticks + 1
  /\ UNCHANGED <<cfVars, callerVars, storeVars, cacheVars, selVars, tokenVars, disp>>

InitClock ==
  /\ now = 1
  /\ ticks = 0

InitCfState ==
  /\ cf = CfInit
  /\ cfLock = 0
  /\ heap = [o \in ObjIds |-> IF o = 1 THEN DictCell(EmptyItems) ELSE FreeCell]
  /\ invalidated = FALSE
  /\ cpc = [c \in Callers |-> "idle"]
  /\ carg = [c \in Callers |-> 0]
  /\ cres = [c \in Callers |-> NoResult]
  /\ cval = [c \in Callers |-> "unread"]
  /\ held = [c \in Callers |-> 0]

\* rows as added through the admin API: enabled, never used
AllRows(n) == [i \in 1..n |-> i]
InitTables(na, np) ==
  /\ accEnabled = [a \in Accounts |-> TRUE]
  /\ accOrder = AllRows(na)
  /\ accToken = [a \in Accounts |-> FirstTokens]
  /\ prxEnabled = [p \in Proxies |-> TRUE]
  /\ prxOrder = AllRows(np)

InitSelectors ==
  /\ account_index = 0
  /\ proxy_index = 0
  /\ accounts_cache = [data |-> NoList, expires |-> 0]
  /\ snapToken = [a \in Accounts |-> FirstTokens]
  /\ settings_cache = [data |-> NoSettings, expires |-> 0]
  /\ sel = [t \in SelThreads |-> SelIdle]
  /\ apc = "idle"
  /\ atarget = 0
  /\ accRun = <<>>
  /\ accLast = NoSel
  /\ prxRun = <<>>
  /\ prxLast = NoSel
  /\ lastFetch = [acc |-> NeverFetched, prx |-> NeverFetched, set |-> NeverFetched]

InitDispIdle == disp = [t \in DispThreads |-> DispIdle]

InitCF ==
  /\ InitClock
  /\ InitCfState
  /\ InitTables(NAcc, NPrx)
  /\ dbSettings = DefaultSettings
  /\ InitSelectors
  /\ InitDispIdle

CfMethodStep(c) ==
  /\ UNCHANGED <<storeVars, cacheVars, selVars, tokenVars, disp>>
  /\ \/ \E v \in Versions, k \in CookieArgs : UpdBegin(c, v, k)
     \/ UpdUserAgent(c)
     \/ UpdCookies(c)
     \/ UpdExpires(c)
     \/ UpdValid(c)
     \/ Invalidate(c)
     \/ ClrBegin(c)
     \/ ClrUserAgent(c)
     \/ ClrCookies(c)
     \/ ClrExpires(c)
     \/ ClrValid(c)
     \/ GetCheck(c)
     \/ GetUserAgent(c)
     \/ GetCookies(c)
     \/ GetClearance(c)
     \/ IsValidCall(c)

NextCF == (\E c \in Callers : CfMethodStep(c)) \/ Tick

SpecCF == InitCF /\ [][NextCF]_vars

\* one thread that uses cf_state and changes the mappings it holds
AliasCallers == {c \in Callers : \A d \in Callers : c <= d}
NextCFAlias ==
  \/ \E c \in AliasCallers : CfMethodStep(c)
  \/ \E c \in AliasCallers : MutatePassed(c)
  \/ \E c \in AliasCallers : MutateReturned(c)
  \/ Tick

SpecCFAlias == InitCF /\ [][NextCFAlias]_vars

\* ------------------------------------------------ specification: selectors
\* The two selectors share no state but index_lock: each is exercised in a
\* deployment of its own, accounts without proxies (proxy settings off) and
\* proxies (proxy and proxy pool on) without accounts.
PoolSettings == [DefaultSettings EXCEPT !.proxy_enabled = TRUE, !.proxy_pool_enabled = TRUE]

InitSel ==
  /\ InitClock
  /\ InitCfState
  /\ \/ InitTables(NAcc, 0) /\ dbSettings = DefaultSettings
     \/ InitTables(0, NPrx) /\ dbSettings = PoolSettings
  /\ InitSelectors
  /\ InitDispIdle

SelStep(t) ==
  /\ UNCHANGED <<clockVars, cfVars, callerVars, tokenVars, disp>>
  /\ \/ GA_Begin(t)
     \/ GA_Fetch(t)
     \/ GA_StoreData(t)
     \/ GA_StoreExpires(t)
     \/ GA_Read(t)
     \/ GA_Select(t)
     \/ GP_Begin(t)
     \/ GS_Return(t)
     \/ GS_Fetch(t)
     \/ GS_StoreData(t)
     \/ GS_StoreExpires(t)
     \/ GP_Check(t)
     \/ GP_Fetch(t)
     \/ GP_Select(t)

StoreStep ==
  /\ UNCHANGED <<clockVars, cfVars, callerVars, tokenVars, disp>>
  /\ \/ \E a \in Accounts, en \in BOOLEAN : AdminUpdateAccount(a, en)
     \/ AdminInvalidateData
     \/ AdminInvalidateExpires
     \/ \E p \in Proxies, en \in BOOLEAN : AdminUpdateProxy(p, en)
     \/ \E p \in Proxies : RecordProxyUsage(p)

\* the clock stands still: a snapshot is replaced after an invalidation
NextSel == (\E t \in SelThreads : SelStep(t)) \/ StoreStep

SpecSel == InitSel /\ [][NextSel]_vars

\* ------------------------------------------- specification: cache lifetimes
\* one thread making one access after another while the clock runs
TtlThreads == {t \in SelThreads : \A u \in SelThreads : t <= u}
NextTtl == (\E t \in TtlThreads : SelStep(t)) \/ Tick

SpecTtl == InitSel /\ [][NextTtl]_vars

\* ----------------------------------------------- specification: dispatcher
\* the settings an operator has saved
AllSettings ==
  {[proxy_enabled |-> pp, proxy_pool_enabled |-> pp, cf_solver_enabled |-> sv,
    retry_on_429 |-> r4, retry_on_403 |-> r3, max_retries |-> m] :
     pp \in BOOLEAN, sv \in BOOLEAN, r4 \in BOOLEAN, r3 \in BOOLEAN, m \in 0..MaxRetries}

\* The proxy rotation (proxy_index, the proxies table) and the solver
\* (cf_state) share no state: the dispatcher is exercised with the one or the
\* other on, or neither.
DispSettings == {s \in AllSettings : ~(s.proxy_pool_enabled /\ s.cf_solver_enabled)}

InitDisp ==
  /\ InitClock
  /\ InitCfState
  /\ InitTables(1, NPrx)
  /\ dbSettings \in DispSettings
  /\ InitSelectors
  /\ InitDispIdle

DispStep(t) ==
  /\ UNCHANGED <<clockVars, cfLock, callerVars, accEnabled, prxEnabled, dbSettings>>
  /\ UNCHANGED <<settings_cache, sel, apc, atarget, accRun, accLast, prxRun, prxLast>>
  /\ \/ \E valid \in BOOLEAN : D_Begin(t, valid)
     \/ D_ProxyFetch(t)
     \/ D_ProxySelect(t)
     \/ D_Pre(t)
     \/ \E body \in SolverBodies, v \in Versions : D_Solve(t, body, v)
     \/ D_GetData(t)
     \/ D_Call(t)
     \/ \E r \in Responses : D_Response(t, r)
     \/ \E ok \in BOOLEAN : D_Refresh(t, ok)
     \/ \E failure \in RecorderFailures : D_Record(t, failure)
     \/ D_Unwind(t)

NextDisp == \E t \in DispThreads : DispStep(t)

SpecDisp == InitDisp /\ [][NextDisp]_vars

\* -------------------------------------- specification: one dispatch at a time
\* requests served one after the other by one thread
SeqThreads == {t \in DispThreads : \A u \in DispThreads : t <= u}
NextDispSeq == \E t \in SeqThreads : DispStep(t)

SpecDispSeq == InitDisp /\ [][NextDispSeq]_vars

\* ------------------------------------------------- claims: CloudflareState

\* what get_request_data would return to a caller arriving now
RequestView ==
  IF ~cf.is_valid \/ ~Truthy(cf.cf_clearance) \/ Expired(now, cf.expires_at)
    THEN [some |-> FALSE, user_agent |-> PyNone, cookies |-> EmptyItems, cf_clearance |-> PyNone]
    ELSE [some |-> TRUE, user_agent |-> cf.user_agent,
          cookies |-> heap[cf.cookies].items, cf_clearance |-> cf.cf_clearance]

\* C8 (as claimed): is_valid is true iff a token is present, the state was not
\* invalidated since the last update, and now < expires_at; so it is false at
\* now = expires_at.
C8_ValidIffBeforeExpiry ==
  cfLock = 0 =>
    (is_valid(cf, now) <=>
       (Truthy(cf.cf_clearance) /\ ~invalidated /\ now < cf.expires_at))

\* C8 (amended): is_valid is true iff a token is present, the state was not
\* invalidated since the last update, and now <= expires_at: the instant
\* now = expires_at still counts as valid, every later instant does not.
C8_ValidIffNotPastExpiry ==
  cfLock = 0 =>
    (is_valid(cf, now) <=>
       (Truthy(cf.cf_clearance) /\ ~invalidated /\ now <= cf.expires_at))

\* a thread read is_valid as true at the very instant of expiry
C8_Witness ==
  \E c \in Callers :
    /\ cval[c] = "true" /\ cfLock = 0
    /\ cf.is_valid /\ Truthy(cf.cf_clearance) /\ now = cf.expires_at

\* C9: mutating the mapping get_request_data returned, or the cookies mapping
\* the caller passed to update, does not change what a later get_request_data
\* returns.
C9_MutationsDoNotReachState ==
  [][(\E c \in Callers : MutatePassed(c) \/ MutateReturned(c))
       => RequestView' = RequestView]_vars

\* C10: every mapping get_request_data returns carries the token, user agent
\* and cookies of one single update call, and its cookies hold cf_clearance
\* equal to its token.
C10_ReadsAreConsistent ==
  \A c \in Callers :
    cres[c].some =>
      \E v \in Versions :
        /\ Truthy(TokOf(v))
        /\ cres[c].cf_clearance = TokOf(v)
        /\ cres[c].user_agent = UAOf(v)
        /\ heap[cres[c].cookies].items["cf_clearance"] = TokOf(v)
        /\ heap[cres[c].cookies].items["sid"] \in {SidOf(v), Absent}

\* ---------------------------------------------------------- claims: selectors

\* where item x stands in snapshot S
Pos(S, x) == CHOOSE i \in 1..Len(S) : S[i] = x

\* a run of results on one unchanged snapshot S of size N goes through S in
\* order, wrapping after the last item: any N consecutive results are
\* distinct, and the (N+1)-th is the first again
RunInOrder(run, last) ==
  run # <<>> =>
    LET S == last.snap.list
        N == Len(S)
    IN /\ Len(run) <= N + 1
       /\ \A i \in 1..Len(run) : \E k \in 1..N : S[k] = run[i]
       /\ \A i \in 1..(Len(run) - 1) : Pos(S, run[i + 1]) = (Pos(S, run[i]) % N) + 1
       /\ \A i, j \in 1..Len(run) : (i < j /\ j <= N) => run[i] # run[j]
       /\ Len(run) = N + 1 => run[N + 1] = run[1]

\* C5: on a non-empty snapshot of size N that stays unchanged, N consecutive
\* calls of a selector return each item once, in the snapshot's (cyclic)
\* order, and the (N+1)-th call returns the first of them again
C5_RoundRobin == RunInOrder(accRun, accLast) /\ RunInOrder(prxRun, prxLast)

\* C5: get_next_account has gone once round a snapshot of all the accounts
\* and returned its first result again
C5_Witness ==
  /\ Len(accLast.snap.list) = NAcc
  /\ Len(accRun) = NAcc + 1
  /\ accRun[NAcc + 1] = accRun[1]

\* what a call returned: None on an empty (or absent) snapshot, otherwise the
\* item at the index it found, modulo the length of the snapshot it read
ReturnedInRange(last) ==
  IF last.res = 0
    THEN last.snap.list = <<>>
    ELSE last.res = last.snap.list[(last.idx % Len(last.snap.list)) + 1]

C7_DisabledNeverSelected ==
  [][\A t \in SelThreads :
       (sel[t].pc = "ga_select" /\ sel'[t].pc = "idle" /\ ~sel[t].early)
         => accLast'.res \notin Banned]_vars

\* --------------------------------------------------------- claims: dispatcher

\* C1: a 401 answered by a successful refresh takes no slot of the retry
\* budget: where the loop issues an upstream call, the slots used (attempt)
\* are the earlier responses other than refreshed 401s, and no dispatch ends
\* in ABORT with the 401 as its cause after the refresh succeeded
C1_RefreshIsFree ==
  \A t \in DispThreads :
    /\ disp[t].pc = "call" => disp[t].attempt = disp[t].calls - disp[t].refreshed
    /\ disp[t].pc = "done" /\ disp[t].outcome = "ABORT" => disp[t].last_error # "s401"

\* C2: a dispatch issues at most max_retries + 1 upstream calls; one whose
\* every response was a 429, with retry_on_429 on, issues exactly
\* max_retries + 1 and returns failure with the 429 as its cause
C2_RetryBudget ==
  \A t \in DispThreads :
    /\ disp[t].calls <= dbSettings.max_retries + 1
    /\ (disp[t].pc = "done" /\ disp[t].calls >= 1 /\ disp[t].all429 /\ dbSettings.retry_on_429)
         => /\ disp[t].calls = dbSettings.max_retries + 1
            /\ disp[t].outcome = "ABORT"
            /\ disp[t].last_error = "s429"

\* C3: no exception leaves process_sora_request, and what it returns is
\* SUCCESS or ABORT
C3_NoEscape ==
  \A t \in DispThreads :
    /\ disp[t].pc # "raised"
    /\ disp[t].pc = "done" => disp[t].outcome \in {"SUCCESS", "ABORT"}

\* C4: with more than one proxy enabled, the proxy that get_next_proxy
\* returns for the retry after a 429 is not the proxy of the attempt that got
\* the 429
C4_RotationChangesProxy ==
  [][\A t \in DispThreads :
       (/\ disp[t].pc = "gp_select"
        /\ disp[t].after = "r429"
        /\ disp'[t].pc # "gp_select"
        /\ Len(get_enabled_proxies) > 1)
         => disp'[t].proxy # disp[t].proxy]_vars

\* C11: the solver is called only while the Challenge State is invalid and
\* cf_solver_enabled is on: no thread performs its solver call at a moment
\* when cf_state.is_valid is true
C11_SolverOnlyWhenInvalid ==
  [][\A t \in DispThreads :
       (disp[t].pc = "solve" /\ disp'[t].pc # "solve")
         => (dbSettings.cf_solver_enabled /\ ~is_valid(cf, now))]_vars

\* C12: a solver call that makes solve_cf_challenge return None (error,
\* timeout, status other than 200, no true success flag, malformed body)
\* leaves every field of the Challenge State as it was; one that returns a
\* result leaves the state holding that result's token and user agent
C12_FailedSolveKeepsState ==
  [][\A t \in DispThreads :
       (disp[t].pc = "solve" /\ disp'[t].pc # "solve")
         => IF disp'[t].pc = "getdata"
              THEN \E v \in Versions : cf' = UpdatedState(v, now)
              ELSE cf' = cf /\ heap' = heap]_vars

\* C13: a reader of a rotation cache obtains a complete snapshot, never None:
\* what get_next_account reads from _accounts_cache['data'] and what
\* get_settings returns from _settings_cache['data'] is a fetched value
C13_NoTornRead ==
  [][\A t \in SelThreads :
       /\ (sel[t].pc = "ga_read" /\ sel'[t].pc # "ga_read") => accounts_cache.data.some
       /\ (sel[t].pc = "gs_return" /\ sel'[t].pc # "gs_return") => settings_cache.data.some]_vars

\* C14: once an administrative mutation and its invalidation hook have
\* completed, an access that begins afterwards works on data fetched from the
\* store after the mutation: with no mutation under way, the snapshot such a
\* get_next_account call reads is the store's present list of enabled accounts
C14_FreshAfterInvalidation ==
  [][\A t \in SelThreads :
       (/\ sel[t].pc = "ga_read" /\ sel'[t].pc # "ga_read"
        /\ ~sel[t].early
        /\ apc = "idle"
        /\ accounts_cache.data.some)
         => accounts_cache.data.list = get_enabled_accounts]_vars

\* ------------------------------------------------------ claims: cache lifetimes

C16_RecorderFailureIsHarmless ==
  [][\A t \in DispThreads :
       (disp[t].pc = "done" /\ disp[t].outcome = "SUCCESS" /\ disp'[t].pc # "done")
         => disp'[t].pc = "idle"]_vars

\* C17: only 429, 403 and 401 are retried: a 200 whose body lacks the path,
\* any other status, a transport error or timeout, and a 429 or 403 whose
\* retry_on_* setting is off end the dispatch as ABORT at once, with no
\* further upstream call, no proxy rotation and no solver call
C17_OnlyListedStatusesRetried ==
  [][\A t \in DispThreads :
       (/\ disp[t].pc = "resp" /\ disp'[t].pc # "resp"
        /\ \/ disp'[t].last_error \in {"badbody", "other"}
           \/ disp'[t].last_error = "s429" /\ ~dbSettings.retry_on_429
           \/ disp'[t].last_error = "s403" /\ ~dbSettings.retry_on_403)
         => /\ disp'[t].pc = "done" /\ disp'[t].outcome = "ABORT"
            /\ disp'[t].calls = disp[t].calls
            /\ disp'[t].proxy = disp[t].proxy
            /\ proxy_index' = proxy_index
            /\ cf' = cf /\ heap' = heap]_vars

\* a 429 with retry_on_429 off ended a dispatch that had attempts left
C17_Witness ==
  \E t \in DispThreads :
    /\ disp[t].pc = "done" /\ disp[t].outcome = "ABORT"
    /\ disp[t].last_error = "s429" /\ ~dbSettings.retry_on_429
    /\ disp[t].calls = 1 /\ dbSettings.max_retries >= 1

\* C18: before every upstream call of a dispatch, the first and every retry,
\* a solver call is made when the Challenge State is invalid at that moment
\* and cf_solver_enabled is on: no upstream call is issued with the state
\* invalid and the solver enabled unless the dispatch called the solver since
\* its previous upstream call
C18_SolveBeforeEveryCall ==
  [][\A t \in DispThreads :
       (/\ disp[t].pc = "call" /\ disp'[t].pc # "call"
        /\ dbSettings.cf_solver_enabled
        /\ ~is_valid(cf, now))
         => disp[t].solved # "no"]_vars

\* C19: the cached snapshot of accounts is never changed in place: while no
\* store fetch replaces it, the list and every field of every account dict
\* in it stay as they were fetched, also when a dispatch refreshes a token
\* after a 401 (the token swap touches only a copy private to the call)
C19_SnapshotNeverMutated ==
  [][(/\ accounts_cache.data.some
      /\ accounts_cache'.data.some
      /\ lastFetch'.acc = lastFetch.acc)
       => /\ accounts_cache'.data = accounts_cache.data
          /\ snapToken' = snapToken]_vars

\* C20: on a 403 with retry_on_403 on and attempts remaining the dispatcher
\* invalidates the challenge state and (solver on) calls the solver before
\* its next upstream call; when that solver call succeeded with a token, the
\* next upstream call carries that token and its user agent; and a dispatch
\* whose upstream call answered 200 with the link ends with the caller
\* receiving the link
C20_Retry403 ==
  [][\A t \in SeqThreads :
       /\ (/\ disp[t].pc = "resp" /\ disp'[t].pc # "resp"
           /\ disp'[t].last_error = "s403" /\ dbSettings.retry_on_403
           /\ disp[t].attempt < dbSettings.max_retries)
            => /\ ~cf'.is_valid
               /\ disp'[t].pc = IF dbSettings.cf_solver_enabled THEN "solve" ELSE "call"
       /\ (/\ disp[t].pc = "call" /\ disp'[t].pc # "call"
           /\ disp[t].last_error = "s403"
           /\ disp[t].solved = "ok" /\ Truthy(TokOf(disp[t].minted)))
            => /\ RequestOutcome(cf, heap, now) = "data"
               /\ cf.cf_clearance = TokOf(disp[t].minted)
               /\ cf.user_agent = UAOf(disp[t].minted)
               /\ disp'[t].pc = "resp"
       /\ (/\ disp[t].pc = "done" /\ disp'[t].pc # "done"
           /\ disp[t].outcome = "SUCCESS" /\ disp[t].last_error = "s403")
            => disp'[t].pc = "idle"]_vars

\* C21: the outcome is recorded against the proxy that was used: when a
\* dispatch succeeded and its outcome was recorded, the proxy whose usage is
\* updated is the proxy of the successful upstream call, also after the
\* dispatch changed proxies on a 429
C21_RecordedProxyIsTheOneUsed ==
  [][\A t \in SeqThreads :
       (/\ disp[t].pc = "done" /\ disp'[t].pc = "idle"
        /\ disp[t].outcome = "SUCCESS"
        /\ disp[t].proxy # 0)
         => prxOrder' = update_proxy_usage(disp[t].proxy)]_vars

\* C22: a call that reached the dispatcher and whose outcome was recorded
\* has added exactly one to its account's counters: one to request_count on
\* SUCCESS, one to error_count on ABORT, however many 401s it answered by
\* refreshing the token
C22_UsageCountedOnce ==
  [][\A t \in SeqThreads :
       (disp[t].pc = "done" /\ disp'[t].pc = "idle")
         => disp'[t].usage = CountUsage(NoUsage, disp[t].outcome = "SUCCESS")]_vars

\* C23: whenever refresh_token is called for an account, the refresh token
\* it sends is the one the store holds for that account: also at a second
\* 401 of the same dispatch, and in a later dispatch that takes the account
\* from the cached snapshot
C23_SendsStoredRefreshToken ==
  [][\A t \in SeqThreads :
       (disp[t].pc = "refresh" /\ disp'[t].pc # "refresh")
         => disp[t].refresh_token = accToken[disp[t].account].refresh_token]_vars

\* C24: a call rejected before dispatch (application token wrong or missing,
\* no url, malformed link) leaves the shared state of the dispatcher as it
\* was: account_index, proxy_index, the challenge state and the usage
\* recorded in the store
C24_RejectedCallChangesNothing ==
  [][\A t \in SeqThreads :
       (disp[t].pc = "idle" /\ disp'[t].pc = "idle")
         => /\ account_index' = account_index
            /\ proxy_index' = proxy_index
            /\ cf' = cf /\ heap' = heap
            /\ accOrder' = accOrder /\ prxOrder' = prxOrder]_vars

\* C25: a 429 or 403 invalidates only the token its request carried: when
\* another dispatch installed a token by update after this dispatch sent
\* its upstream request, and that token is valid and unexpired, this
\* dispatch's handling of its response leaves it valid
C25_InvalidatesOnlyItsOwnToken ==
  [][\A t \in DispThreads :
       (/\ disp[t].pc = "resp" /\ disp'[t].pc # "resp"
        /\ disp[t].carried /\ disp[t].overtaken
        /\ is_valid(cf, now))
         => is_valid(cf', now)]_vars

====
